---- MODULE Spec2Model ----
(***************************************************************************)
(* Device attestation and secret provisioning of the Populist backend     *)
(* (index.js): the "devices" collection, POST /api/attest/register,       *)
(* POST /api/secure-key with validateAppAttest, POST /admin/revoke-device *)
(* and GET /admin/devices.                                                 *)
(*                                                                         *)
(* Every handler is an async function.  A handler runs without            *)
(* interruption between two awaits on the document store, so each action  *)
(* below is one store operation (get, update, set) together with the      *)
(* synchronous code that follows it up to the next store operation or to  *)
(* the response.  Handlers of different requests interleave at these      *)
(* points.                                                                 *)
(*                                                                         *)
(* The body fields assertion, challenge and service of a secure-key       *)
(* request are immutable inputs; no step inspects them before the step    *)
(* that first uses them, so they are bound (\E) at that step.             *)
(***************************************************************************)
EXTENDS Integers, Sequences, FiniteSets, Bags, TLC

\* ------------------------------------------------------------------ bounds
\* Largest replay counter a presented assertion or attestation embeds.
MaxCounter == 1
\* Number of store writes in one run (the server clock ticks once per write).
MaxClock == 3
\* Number of POST /api/secure-key requests in flight together under Spec.
MaxReqs == 1
\* Ticks of the webhook clock the model follows: a request that reaches its
\* first store operation and every store write take one.
MaxWhClock == 8

\* ------------------------------------------------------------ input sets
\* Device identifiers as character sequences: the identifier "/".
DeviceIds == { <<"/">> }
Keys == { "K1", "K2" }
\* Challenges a request carries, and challenges a presented signature may
\* have been made over.
Challenges == { "c1" }
SignedChallenges == { "c1", "c2" }
Platforms == { "ios", "android", "web" }
Services == { "congress", "weather" }
Tokens == { "", "garbage", "admin", "other" }
AndroidTokens == { "recognized", "unrecognized", "malformed" }
\* Slots for POST /api/secure-key requests in flight.
Reqs == { 1, 2 }

\* process.env: APPLE_TEAM_ID, APPLE_BUNDLE_ID ("" when unset)
TeamIds == { "", "TEAM123" }
BundleIds == { "" }

VARIABLES
  devices,     \* the "devices" collection: storage key -> document
  now,         \* server clock, read by FieldValue.serverTimestamp()
  env,         \* process.env: teamId, bundleId
  sk,          \* POST /api/secure-key requests in flight: position, locals
  rv,          \* POST /admin/revoke-device request in flight: position, locals
  resp,        \* the response the last step sent, NoResp when it sent none
  inflight,    \* how many POST /api/secure-key requests the run overlaps
  revokeAcked, \* history: storage keys whose revocation has been answered 200
  acceptLog,   \* history: per storage key, the assertions validateAppAttest
               \* accepted since the key's last registration
  box,         \* a sealed secret handed to a device, and what unsealing gave
  wh,          \* vendor webhook requests in flight: position, locals
  users,       \* the "users" collection
  sessions,    \* the "verification_sessions" collection
  verificationLogs,  \* the "verification_logs" collection (a bag of entries)
  securityLogs,      \* the "security_logs" collection (a bag of entries)
  processed,   \* the "processed_webhook_events" collection: eventId -> document
  whNow,       \* Date.now() in milliseconds past the second NowSecs
  whEnv,       \* process.env: DIDIT_WEBHOOK_SECRET ("" when unset)
  whResp,      \* the response the last webhook step sent
  whInflight   \* how many webhook requests the run overlaps

\* The variables of the vendor webhooks.
wvars == << wh, users, sessions, verificationLogs, securityLogs, processed,
            whNow, whEnv, whResp, whInflight >>

\* The variables of the device registry and of the sealing runs.
dvars == << devices, now, env, inflight, sk, rv, resp, revokeAcked, acceptLog, box >>

vars == << devices, now, env, inflight, sk, rv, resp, revokeAcked, acceptLog,
           box, wvars >>

\* --------------------------------------------------------------- helpers
\* The sanitizer with replace() given strings in place of the global
\* patterns: only the first "/" and the first "+" are replaced.
getSafeFirestoreIdFirst(id) ==
  [ i \in DOMAIN id |->
      IF id[i] = "/" /\ (\A j \in 1..(i - 1) : id[j] # "/") THEN "_"
      ELSE IF id[i] = "+" /\ (\A j \in 1..(i - 1) : id[j] # "+") THEN "-"
      ELSE id[i] ]

\* index.js:143-146
getSafeFirestoreId(id) ==
  [ i \in DOMAIN id |-> IF id[i] = "/" THEN "_"
                        ELSE IF id[i] = "+" THEN "-" ELSE id[i] ]

\* Device identifiers of the runs that follow the storage keys: with and
\* without the characters the sanitizer replaces, one of them twice.
ProbeIds == { << "/" >>, << "_" >>, << "+" >>, << "/", "a", "/" >> }

\* The documents of "devices" the runs can reach.
SafeIds == { getSafeFirestoreId(d) : d \in DeviceIds \cup ProbeIds }

\* crypto.createHash("sha256").update(x).digest(): collision free
SHA256(x) == [ alg |-> "sha256", of |-> x ]

\* `${teamId}.${bundleId}`
AppIdOf(teamId, bundleId) == << teamId, ".", bundleId >>

\* An application identity that is not this server's, whatever the env is.
CloneAppId == << "EVIL", ".", "com.clone" >>

\* ------------------------------------------------------- binary credentials
\* Authenticator data: rpIdHash(32) flags(1) counter(4) aaguid(16)
\* credIdLen(2) credId publicKeyCOSE.  key is the P-256 point the COSE region
\* decodes to: a member of Keys, or "malformed" when the region does not
\* decode to coordinates of a curve point.
RpHashes == { SHA256(AppIdOf("TEAM123", "com.sayists.Populist")), SHA256(CloneAppId) }

\* Attested keys: the device key K1, or a region that is no key.
AuthDatas == [ rpIdHash : RpHashes, counter : {0}, key : { "K1", "malformed" } ]

\* The value read for a document field publicKey that was never written.
NoAuthData == [ rpIdHash |-> SHA256(AppIdOf("", "")), counter |-> 0, key |-> "undefined" ]

\* Decoded attestation objects: decodes = FALSE when cbor.decodeFirstSync
\* throws, hasAuthData = FALSE when the decoded object has no authData.
Attestations ==
  [ decodes : {TRUE}, hasAuthData : {TRUE}, authData : AuthDatas ]
  \cup [ decodes : BOOLEAN, hasAuthData : {FALSE}, authData : {NoAuthData} ]

\* ES256 as the device's secure enclave computes it: ECDSA under key over the
\* SHA-256 digest of the message.
ES256Sign(key, message) == [ key |-> key, over |-> SHA256(message) ]

\* The byte string authenticatorData || clientDataHash.
SignedMessage(authenticatorData, challenge) ==
  [ authData |-> authenticatorData, clientDataHash |-> SHA256(challenge) ]

\* Authenticator data of an assertion (37 bytes: no credential, no key).
AssertionAuthDatas == [ rpIdHash : RpHashes, counter : 0..MaxCounter ]

\* Signatures a client can present: made with either key, over the presented
\* authenticator data or over one with another counter, with either challenge.
ValidAssertions ==
  { [ decodes |-> TRUE, authenticatorData |-> ad,
      signature |-> ES256Sign(k, SignedMessage([ad EXCEPT !.counter = c], ch)) ] :
      ad \in AssertionAuthDatas, k \in Keys, c \in 0..MaxCounter, ch \in SignedChallenges }

\* A blob that cbor.decodeFirstSync rejects.
NoAssertion ==
  [ decodes |-> FALSE,
    authenticatorData |-> [ rpIdHash |-> SHA256(AppIdOf("", "")), counter |-> 0 ],
    signature |-> ES256Sign("undefined",
                   SignedMessage([ rpIdHash |-> SHA256(AppIdOf("", "")), counter |-> 0 ], "")) ]

Assertions == ValidAssertions \cup { NoAssertion }

\* ------------------------------------------------------ per-device secret
IVs == { "iv1", "iv2" }
MasterKey == "MASTER_CRYPT_KEY"
ApiKey == "CONGRESS_API_KEY"

\* The derivation with a fixed info string in place of the service's.
HKDFNoInfo(masterKey, salt, service) ==
  [ ikm |-> masterKey, salt |-> salt, info |-> << "", "-api-key-encryption" >> ]

\* crypto.hkdfSync("sha256", masterKey, deviceId, `${service}-api-key-encryption`, 32)
HKDF(masterKey, salt, service) ==
  [ ikm |-> masterKey, salt |-> salt, info |-> << service, "-api-key-encryption" >> ]

\* index.js:351-391.  iv is crypto.randomBytes(16), t is Date.now().
encryptAPIKeyPerDevice(apiKey, deviceId, service, iv, t) ==
  LET deviceKey == HKDF(MasterKey, deviceId, service)
      payload == [ key |-> apiKey, deviceId |-> deviceId, issuedAt |-> t ]
  IN [ encryptedKey |-> [ key |-> deviceKey, iv |-> iv, plain |-> payload ],
       iv |-> iv,
       authTag |-> [ key |-> deviceKey, iv |-> iv, tagOf |-> payload ] ]

\* The value read for the fields encryptedKey, iv, authTag never written.
NoSealed == encryptAPIKeyPerDevice("", << >>, "", "", -1)

\* ------------------------------------------------------------ the registry
\* A document of the "devices" collection.  A field that was never written
\* reads as: -1 for numbers and timestamps, "" or << >> for strings, FALSE
\* for revoked, NoAuthData for publicKey, NoSealed for the sealed secret.
\* (ipAddress and version carry no decision and are left out.)
NoDoc ==
  [ exists |-> FALSE,
    keyId |-> << >>, publicKey |-> NoAuthData, counter |-> -1,
    registeredAt |-> -1, bundleId |-> "", lastUsed |-> -1,
    deviceId |-> << >>, service |-> "", platform |-> "", sealed |-> NoSealed,
    issuedAt |-> -1, lastSeen |-> -1, revoked |-> FALSE, requestCount |-> 0,
    revokedAt |-> -1, revokedReason |-> "", revokedBy |-> "" ]

\* A response: the route and the handler position that sent it, the device
\* identifier and platform of the request, the HTTP status, the error text,
\* the sealed secret (encryptedKey, iv, authTag) when the body carries one,
\* idToken of an admin request (history),
\* the device list of GET /admin/devices and, of a request that
\* validateAppAttest turned down, the message it wrote to the console, the
\* counter of the presented assertion and whether its signature verifies.
Resp(route, step, deviceId, platform, status, error) ==
  [ route |-> route, step |-> step, deviceId |-> deviceId, platform |-> platform,
    status |-> status, error |-> error, hasSecret |-> FALSE, sealed |-> NoSealed,
    cached |-> FALSE, devices |-> {}, log |-> "", sigOk |-> FALSE, counter |-> -1,
    idToken |-> "" ]

NoResp == Resp("", "", << >>, "", 0, "")

\* A response that names no device.
EarlyResp(route, status, error) == Resp(route, "start", << >>, "", status, error)

\* ------------------------------------------------------------ verification
\* process.env.APPLE_BUNDLE_ID || "com.sayists.Populist"
BundleIdOf(e) == IF e.bundleId = "" THEN "com.sayists.Populist" ELSE e.bundleId

\* The App ID check left out.
verifyAppIdHashSkipped(e, authData) == TRUE

\* index.js:161-177
verifyAppIdHash(e, authData) ==
  IF e.teamId = "" \/ BundleIdOf(e) = ""
  THEN TRUE
  ELSE authData.rpIdHash = SHA256(AppIdOf(e.teamId, BundleIdOf(e)))

\* index.js:239-260: the JWK built from the stored authenticator data;
\* usable = FALSE when decoding the COSE region or crypto.createPublicKey
\* throws.
StoredJwk(storedAuthData) ==
  [ usable |-> storedAuthData.key \in Keys, key |-> storedAuthData.key ]

\* The verification with the comparison of the signature left out.
isSignatureValidUnchecked(jwk, authenticatorData, challenge, signature) ==
  jwk.usable

\* index.js:263-273: crypto.verify(null, hash, publicKey, signature) with
\* hash = SHA256(authenticatorData || clientDataHash), the digest ECDSA checks.
isSignatureValid(jwk, authenticatorData, challenge, signature) ==
  /\ jwk.usable
  /\ signature.key = jwk.key
  /\ signature.over = SHA256(SignedMessage(authenticatorData, challenge))

\* The comparison with < in place of <=.
ReplayDetectedStrict(counter, storedCounter) == counter < storedCounter

\* index.js:288
ReplayDetected(counter, storedCounter) == counter <= storedCounter

\* index.js:190-292: validateAppAttest from the read of keyDoc up to the
\* counter update: TRUE when it goes on to write the counter, FALSE when it
\* returns false (also from the catch of a thrown decode or key error).
AppAttestPasses(e, keyDoc, assertion, challenge) ==
  /\ keyDoc.exists
  /\ assertion.decodes
  /\ verifyAppIdHash(e, assertion.authenticatorData)
  /\ isSignatureValid(StoredJwk(keyDoc.publicKey), assertion.authenticatorData,
                      challenge, assertion.signature)
  /\ ~ReplayDetected(assertion.authenticatorData.counter, keyDoc.counter)

\* index.js:190-292: the message validateAppAttest writes to the console.
AppAttestLog(e, keyDoc, assertion, challenge) ==
  IF ~keyDoc.exists THEN "App Attest key not found"
  ELSE IF ~assertion.decodes THEN "App Attest validation error"
  ELSE IF ~verifyAppIdHash(e, assertion.authenticatorData)
       THEN "App Attest App ID mismatch (RPID Hash)"
  ELSE IF ~StoredJwk(keyDoc.publicKey).usable THEN "Crypto verification error"
  ELSE IF ~isSignatureValid(StoredJwk(keyDoc.publicKey), assertion.authenticatorData,
                            challenge, assertion.signature)
       THEN "App Attest signature verification failed"
  ELSE IF ReplayDetected(assertion.authenticatorData.counter, keyDoc.counter)
       THEN "App Attest replay attack detected"
  ELSE "App Attest validation successful"

\* index.js:312-341
validateAndroidAttestation(token) == token = "recognized"

\* index.js:989-1054: SERVICE_REGISTRY[service] names a configured key.
ServiceConfigured(service) == service = "congress"

\* admin.auth().verifyIdToken: whether it resolves, and the decoded email.
TokenVerifies(idToken) == idToken \in { "admin", "other" }
TokenEmail(idToken) ==
  IF idToken = "admin" THEN "nmcarducci@gmail.com" ELSE "someone@example.com"

\* ------------------------------------------------------ unsealing a secret
\* Device identifiers of the sealing runs.
SealDeviceIds == DeviceIds \cup { << "+" >> }

\* What a failed decipher leaves in place of the payload.
NoPayload == [ key |-> "", deviceId |-> << >>, issuedAt |-> -1 ]

\* The device's side of index.js:351-391: the key derived as the server
\* derives it, then AES-256-GCM decipher with the iv and the tag of the
\* sealed secret; final() throws when the tag was not made under that key
\* over that ciphertext.
decryptAPIKeyPerDevice(sealed, masterKey, deviceId, service) ==
  LET deviceKey == HKDF(masterKey, deviceId, service)
      tagChecks ==
        /\ sealed.encryptedKey.key = deviceKey
        /\ sealed.encryptedKey.iv = sealed.iv
        /\ sealed.authTag = [ key |-> deviceKey, iv |-> sealed.iv,
                              tagOf |-> sealed.encryptedKey.plain ]
  IN IF tagChecks
     THEN [ ok |-> TRUE, payload |-> sealed.encryptedKey.plain ]
     ELSE [ ok |-> FALSE, payload |-> NoPayload ]

\* Nothing sealed yet.
EmptyBox ==
  [ stage |-> "empty", apiKey |-> "", deviceId |-> << >>, service |-> "",
    issuedAt |-> -1, sealed |-> NoSealed,
    withDeviceId |-> << >>, withService |-> "",
    outcome |-> [ ok |-> FALSE, payload |-> NoPayload ] ]

SealAtRest == box = EmptyBox

\* ---------------------------------------------------------- vendor webhooks
\* users/u1 and verification_sessions/s1 exist, users/u0 and
\* verification_sessions/s0 do not.
UserIds == { "u1", "u0" }
SessionIds == { "s1", "s0" }

\* process.env.DIDIT_WEBHOOK_SECRET ("" when unset), and the secret the
\* vendor signs with.
WebhookSecrets == { "", "whsec" }
VendorSecret == "whsec"

\* Math.floor(Date.now() / 1000) while the run lasts.
ServerSeconds == { 1000 }

\* A document of "users": the fields the webhooks write.
NoUser ==
  [ exists |-> FALSE, journeyStatus |-> "", idwiseFinalDecision |-> "",
    digitSessionId |-> "", digitVerificationStatus |-> "",
    verificationError |-> "", verifiedAt |-> -1, lastUpdatedAt |-> -1 ]

\* A document of "verification_sessions".
NoSession == [ exists |-> FALSE, status |-> "", updatedAt |-> -1 ]

\* No request body.
NoBody == [ vendor |-> "" ]

\* Locals of a webhook request: the parsed body and the ledger key.  checked
\* and fresh are history: the request passed the signature check and the
\* freshness check; its X-Timestamp is a decimal number within the window
\* around the server's time.  faulted is history too: a store operation of
\* the request has failed.
IdleHook ==
  [ pc |-> "idle", route |-> "", body |-> NoBody, eventId |-> << >>,
    checked |-> FALSE, fresh |-> FALSE, faulted |-> FALSE ]

\* The locals after a store operation that succeeded (ok) or failed.
AfterStore(slot, ok) == [ slot EXCEPT !.faulted = @ \/ ~ok ]

\* A webhook response: route, handler position, status, error and message of
\* the body.  The rest is history of the request: signed, its X-Signature is the HMAC of the bytes
\* received under the vendor's secret; matches, its X-Signature equals the
\* digest the handler expects; fresh, its X-Timestamp is a decimal number
\* within the window around the server's time.
HookResp(route, step, status, error, message) ==
  [ route |-> route, step |-> step, status |-> status, error |-> error,
    message |-> message, signed |-> FALSE, matches |-> FALSE, fresh |-> FALSE,
    faulted |-> FALSE ]

NoHookResp == HookResp("", "", 0, "", "")

\* ---- request bodies
\* A Didit body.  decision is the label of its decision object (Decision
\* below), userId the userId of vendor_data, timestamp 0 an absent
\* timestamp field.
DiditBase ==
  [ vendor |-> "didit", webhook_type |-> "status.updated", session_id |-> "s1",
    status |-> "Approved", decision |-> "none", userId |-> "u1", timestamp |-> 5 ]

\* The decision object a decision label stands for.  proof_of_address and
\* id_verification tell whether the object has the property; a name is a
\* string, << >> when its field is absent or empty.
NoDecision ==
  [ proof_of_address |-> FALSE, name |-> << >>,
    id_verification |-> FALSE, full_name |-> << >>, last_name |-> << >> ]

Decision(label) ==
  CASE label = "poa_match" ->
         [ proof_of_address |-> TRUE, name |-> << " ", "A", "l", " ", "B", "o" >>,
           id_verification |-> TRUE, full_name |-> << "a", "l", " ", "B", "O" >>,
           last_name |-> << "B", "O" >> ]
    [] label = "poa_last" ->
         [ proof_of_address |-> TRUE, name |-> << "A", "l", " ", "B", "o" >>,
           id_verification |-> TRUE, full_name |-> << "C", "y", " ", "B", "o" >>,
           last_name |-> << "B", "o", " " >> ]
    [] label = "poa_mismatch" ->
         [ proof_of_address |-> TRUE, name |-> << "A", "l", " ", "B", "o" >>,
           id_verification |-> TRUE, full_name |-> << "C", "y", " ", "D", "i" >>,
           last_name |-> << "D", "i" >> ]
    [] label = "poa_idnoname" ->
         [ proof_of_address |-> TRUE, name |-> << "A", "l", " ", "B", "o" >>,
           id_verification |-> TRUE, full_name |-> << >>, last_name |-> << >> ]
    [] label = "poa_only" ->
         [ proof_of_address |-> TRUE, name |-> << "A", "l", " ", "B", "o" >>,
           id_verification |-> FALSE, full_name |-> << >>, last_name |-> << >> ]
    [] OTHER -> NoDecision

DecisionLabels ==
  { "none", "poa_match", "poa_last", "poa_mismatch", "poa_idnoname", "poa_only" }

\* The bodies the model delivers: DiditBase and its one-field variations.
DiditBodies ==
  { DiditBase }
  \cup { [ DiditBase EXCEPT !.webhook_type = x ] : x \in { "data.updated", "session.created", "" } }
  \cup { [ DiditBase EXCEPT !.session_id = x ] : x \in { "s0", "" } }
  \cup { [ DiditBase EXCEPT !.status = x ] : x \in { "Declined", "" } }
  \cup { [ DiditBase EXCEPT !.decision = x ] : x \in DecisionLabels }
  \cup { [ DiditBase EXCEPT !.userId = x ] : x \in { "u0", "" } }
  \cup { [ DiditBase EXCEPT !.timestamp = 0 ] }

\* An IDWise body: event and body.journeyId, referenceNo, eventId,
\* finalDecision ("" and << >> for an absent field).
IdwiseBase ==
  [ vendor |-> "idwise", event |-> "Finished Journey", journeyId |-> "j1",
    referenceNo |-> "u1", eventId |-> << "e1" >>, finalDecision |-> "Complete" ]

IdwiseBodies ==
  { IdwiseBase }
  \cup { [ IdwiseBase EXCEPT !.event = x ] : x \in { "Started Journey", "" } }
  \cup { [ IdwiseBase EXCEPT !.journeyId = "" ] }
  \cup { [ IdwiseBase EXCEPT !.referenceNo = x ] : x \in { "u0", "" } }
  \cup { [ IdwiseBase EXCEPT !.eventId = << >> ] }
  \cup { [ IdwiseBase EXCEPT !.finalDecision = "Rejected" ] }

\* The bytes of a request: a JSON text of the body, written compactly in
\* the order JSON.stringify writes it, or with other whitespace.
Forms == { "compact", "spaced" }
ReceivedBytes == [ body : DiditBodies, form : Forms ]

\* express.json() and JSON.stringify.
JSONparse(bytes) == bytes.body
JSONstringify(body) == [ body |-> body, form |-> "compact" ]

\* crypto.createHmac('sha256', secret).update(bytes).digest('hex'): 64
\* hexadecimal characters.
HmacSha256Hex(secret, bytes) ==
  [ len |-> 64, mac |-> [ key |-> secret, over |-> bytes ] ]

\* An absent header.
NoHeader == [ len |-> 0, mac |-> [ key |-> "", over |-> NoBody ] ]

\* X-Signature values a sender can put on the bytes: none, the vendor's
\* HMAC of the bytes, an HMAC under a guessed secret, and a text of another
\* length.
SignatureHeaders(bytes) ==
  { NoHeader,
    HmacSha256Hex(VendorSecret, bytes),
    HmacSha256Hex("guess", bytes),
    [ len |-> 10, mac |-> [ key |-> "guess", over |-> NoBody ] ] }

\* index.js:878-881: crypto.timingSafeEqual throws a RangeError when the
\* two buffers differ in length.
timingSafeEqual(a, b) ==
  IF a.len # b.len THEN "throws"
  ELSE IF a = b THEN "equal" ELSE "differs"

\* X-Timestamp values: absent, not a number, and numbers at and around the
\* edges of the window for the server time 1000.
TimestampHeaders ==
  { << >>, << "a", "b", "c" >>, << "1", "0", "0", "0" >>, << "7", "0", "0" >>,
    << "6", "9", "9" >>, << "1", "3", "0", "1" >> }

DigitValue ==
  [ c \in { "0", "1", "2", "3", "4", "5", "6", "7", "8", "9" } |->
      CASE c = "0" -> 0 [] c = "1" -> 1 [] c = "2" -> 2 [] c = "3" -> 3
        [] c = "4" -> 4 [] c = "5" -> 5 [] c = "6" -> 6 [] c = "7" -> 7
        [] c = "8" -> 8 [] c = "9" -> 9 ]

RECURSIVE LeadingDigits(_, _)
LeadingDigits(str, acc) ==
  IF str = << >> \/ Head(str) \notin DOMAIN DigitValue
  THEN acc
  ELSE LeadingDigits(Tail(str), 10 * acc + DigitValue[Head(str)])

\* parseInt(timestamp): the number its leading digits write, NaN when it has
\* none.
parseInt(str) ==
  IF str = << >> \/ Head(str) \notin DOMAIN DigitValue
  THEN [ nan |-> TRUE, value |-> 0 ]
  ELSE [ nan |-> FALSE, value |-> LeadingDigits(str, 0) ]

Abs(x) == IF x < 0 THEN -x ELSE x

\* index.js:891-893: Math.abs(now - timestampInt) > 300; a comparison with
\* NaN is false.
TooOld(nowSecs, timestampInt) ==
  IF timestampInt.nan THEN FALSE
  ELSE Abs(nowSecs - timestampInt.value) > 300

\* The header is a decimal number.
Denotes(str) ==
  str # << >> /\ \A i \in 1..Len(str) : str[i] \in DOMAIN DigitValue

\* Date.now() when the clock of the run reads t.
DateNow(t) == 1000000 + t

\* index.js:915: `didit_${session_id}_${webhook_type}_${eventTimestamp || Date.now()}`
DiditEventId(body, dateNow) ==
  << "didit_", body.session_id, "_", body.webhook_type, "_",
     IF body.timestamp # 0 THEN body.timestamp ELSE dateNow >>

\* index.js:564-571
DiditStatus(status) ==
  CASE status = "Approved" -> "verified"
    [] status = "Declined" -> "rejected"
    [] status = "In Review" -> "under_review"
    [] status = "Abandoned" -> "abandoned"
    [] OTHER -> "unknown"

\* index.js:418-428
mapDecisionToStatus(finalDecision) ==
  CASE finalDecision = "Complete" -> "verified"
    [] finalDecision = "Approved" -> "verified"
    [] finalDecision = "Rejected" -> "rejected"
    [] finalDecision = "Refer" -> "under_review"
    [] finalDecision = "Incomplete" -> "in_progress"
    [] OTHER -> "unknown"

\* index.js:786-792
eventsToProcess ==
  { "Finished Journey", "Updated Journey", "Manually Reviewed",
    "Finished User Steps", "AML Monitor Update" }

WebhookAtRest ==
  /\ wh = [ r \in Reqs |-> IdleHook ]
  /\ users = [ u \in UserIds |-> IF u = "u1" THEN [ NoUser EXCEPT !.exists = TRUE ]
                                             ELSE NoUser ]
  /\ sessions = [ x \in SessionIds |->
                    IF x = "s1" THEN [ NoSession EXCEPT !.exists = TRUE ]
                                ELSE NoSession ]
  /\ verificationLogs = EmptyBag
  /\ securityLogs = EmptyBag
  /\ processed = [ id \in {} |-> NoBody ]
  /\ whNow = 0
  /\ whResp = NoHookResp

\* ---------------------------------------------------------- initial state
\* The fields of the snapshot deviceDoc that the handler reads after the
\* revocation check.
Snapshot(doc) ==
  [ exists |-> doc.exists, revoked |-> doc.revoked, service |-> doc.service,
    sealed |-> doc.sealed ]

\* Locals of a secure-key request: deviceDoc is the snapshot read at the
\* start, counter the counter of the presented assertion.  assertion,
\* challenge and sigOk are history of the request.
IdleSlot ==
  [ pc |-> "idle", deviceId |-> << >>, platform |-> "", service |-> "",
    deviceDoc |-> Snapshot(NoDoc), assertion |-> NoAssertion,
    challenge |-> "", counter |-> -1, sigOk |-> FALSE ]

IdleRevoke ==
  [ pc |-> "idle", deviceId |-> << >>, reason |-> "", userEmail |-> "", idToken |-> "" ]

\* A response sent at the start of a handler leaves every variable but resp
\* as it was, so the behaviour after such a request is the behaviour without
\* it: a behaviour is followed up to such a response and not beyond it.
Open == resp.step # "start"

Init ==
  /\ inflight = MaxReqs
  /\ devices = [ k \in SafeIds |-> NoDoc ]
  /\ now = 0
  /\ env \in [ teamId : TeamIds, bundleId : BundleIds ]
  /\ sk = [ r \in Reqs |-> IdleSlot ]
  /\ rv = IdleRevoke
  /\ resp = NoResp
  /\ revokeAcked = {}
  /\ acceptLog = [ k \in SafeIds |-> EmptyBag ]
  /\ SealAtRest
  /\ WebhookAtRest
  /\ whEnv = [ secret |-> VendorSecret, nowSecs |-> 1000 ]
  /\ whInflight = 1

\* ------------------------------------------------ POST /api/attest/register
\* index.js:1139-1204.  The only store operation is the set with merge; the
\* fields it names are overwritten, the other fields of the document stay.
Register(keyId, attestation, hasFields) ==
  LET safeKeyId == getSafeFirestoreId(keyId) IN
  /\ Open
  /\ UNCHANGED << env, inflight, box, wvars, sk, rv, revokeAcked >>
  /\ IF keyId = << >> \/ ~hasFields   \* !keyId || !attestation || !challenge
     THEN /\ resp' = EarlyResp("register", 400, "Missing required fields")
          /\ UNCHANGED << devices, now, acceptLog >>
     ELSE IF ~attestation.decodes \/ ~attestation.hasAuthData
     THEN \* cbor.decodeFirstSync or the missing authData throws: the catch
          /\ resp' = [ EarlyResp("register", 500, "Registration failed")
                         EXCEPT !.log = "App Attest registration error" ]
          /\ UNCHANGED << devices, now, acceptLog >>
     ELSE IF ~verifyAppIdHash(env, attestation.authData)
     THEN /\ resp' = [ EarlyResp("register", 403, "Invalid App ID or Team ID")
                         EXCEPT !.log = "App Attest Registration App ID mismatch" ]
          /\ UNCHANGED << devices, now, acceptLog >>
     ELSE /\ now < MaxClock
          /\ devices' = [ devices EXCEPT ![safeKeyId] =
                 [ @ EXCEPT !.exists = TRUE,
                            !.keyId = keyId,
                            !.publicKey = attestation.authData,
                            !.counter = 0,
                            !.registeredAt = now,
                            !.bundleId = BundleIdOf(env) ] ]
          /\ now' = now + 1
          /\ acceptLog' = [ acceptLog EXCEPT ![safeKeyId] = EmptyBag ]
          /\ resp' = Resp("register", "set", keyId, "", 200, "")

\* --------------------------------------------------- POST /api/secure-key
\* A response of the request in slot.
SkResp(slot, step, status, error) ==
  Resp("secure-key", step, slot.deviceId, slot.platform, status, error)


SecretResp(slot, step, sealed, cached) ==
  [ SkResp(slot, step, 200, "") EXCEPT !.hasSecret = TRUE, !.sealed = sealed,
                                       !.cached = cached ]

\* index.js:1045-1109 up to the store operation: the service check, then the
\* choice between the cached secret (decided on deviceDoc, the snapshot read
\* at the start of the request) and a new one.  The result is the next
\* position of the request.
AfterValidation(slot, service) ==
  IF ~ServiceConfigured(service) THEN "unconfigured"
  ELSE IF /\ slot.deviceDoc.exists
          /\ ~slot.deviceDoc.revoked
          /\ slot.deviceDoc.service = service
  THEN "cache"
  ELSE "issue"

\* The dispatch with a final else in place of the else-if.
DispatchElse(platform) == IF platform = "ios" THEN "ios" ELSE "android"

\* index.js:1021-1035: the validation the platform value selects.
Dispatch(platform) ==
  IF platform = "ios" THEN "ios"
  ELSE IF platform = "android" THEN "android"
  ELSE "invalid"

\* The check with the revoked flag ignored.
IsRevokedIgnored(deviceDoc) == FALSE

\* index.js:1010
IsRevoked(deviceDoc) == deviceDoc.exists /\ deviceDoc.revoked

\* index.js:978-1035: field validation, the read of deviceDoc, the revocation
\* check and the platform dispatch.  For "ios" the handler goes on to
\* validateAppAttest, whose first statement is the read of keyDoc; for
\* "android" the validation touches no store and the handler runs on to the
\* store operation of the issuance.
SK_Start(r, platform, deviceId, hasAssertion, hasChallenge, token, service) ==
  LET safeDeviceId == getSafeFirestoreId(deviceId)
      deviceDoc == devices[safeDeviceId]
      slot == [ IdleSlot EXCEPT !.deviceId = deviceId, !.platform = platform ]
      started == [ slot EXCEPT !.deviceDoc = Snapshot(deviceDoc) ]
      Fail(status, error) ==
        /\ resp' = SkResp(slot, "start", status, error)
        /\ sk' = sk
      Go(pc) ==
        /\ resp' = NoResp
        /\ sk' = [ sk EXCEPT ![r] = [ started EXCEPT !.pc = pc,
                                                     !.service = IF pc = "validate"
                                                                 THEN "" ELSE service ] ]
  IN
  /\ Open
  /\ r <= inflight
  /\ sk[r].pc = "idle"
  /\ \A q \in Reqs : q < r => sk[q].pc # "idle"   \* the first free slot
  /\ UNCHANGED << devices, now, env, inflight, box, wvars, rv, revokeAcked, acceptLog >>
  /\ IF platform = "" \/ deviceId = << >> \/ ~hasAssertion
     THEN Fail(400, "Missing required fields")
     ELSE IF IsRevoked(deviceDoc)
     THEN /\ resp' = SkResp(slot, "start", 403, "Device revoked")
          /\ sk' = sk
     ELSE IF Dispatch(platform) = "ios"
     THEN IF ~hasChallenge
          THEN Fail(400, "Missing challenge for iOS attestation")
          ELSE Go("validate")
     ELSE IF Dispatch(platform) = "android"
     THEN IF ~validateAndroidAttestation(token)
          THEN Fail(403, "Attestation validation failed")
          ELSE IF AfterValidation(started, service) = "unconfigured"
               THEN Fail(500, "Service API key not configured")
               ELSE Go(AfterValidation(started, service))
     ELSE Fail(400, "Invalid platform")

\* History of a request: whether the presented signature is the ES256
\* signature, under the key embedded in the stored publicKey, of
\* authenticatorData || SHA256(challenge).
SignatureVerifies(publicKeyMaterial, assertion, challenge) ==
  /\ assertion.decodes
  /\ publicKeyMaterial.key \in Keys
  /\ assertion.signature =
       ES256Sign(publicKeyMaterial.key,
                 SignedMessage(assertion.authenticatorData, challenge))

\* validateAppAttest with the lastUsed stamp written before the checks.
SK_ValidateStamping(r, assertion, challenge) ==
  LET safeKeyId == getSafeFirestoreId(sk[r].deviceId)
      keyDoc == devices[safeKeyId]
  IN
  /\ Open
  /\ sk[r].pc = "validate"
  /\ devices' = [ devices EXCEPT ![safeKeyId] =
                    IF @.exists THEN [ @ EXCEPT !.lastUsed = now ] ELSE @ ]
  /\ UNCHANGED << now, env, inflight, box, wvars, rv, revokeAcked, acceptLog >>
  /\ IF AppAttestPasses(env, keyDoc, assertion, challenge)
     THEN /\ sk' = [ sk EXCEPT ![r] =
                       [ @ EXCEPT !.pc = "update",
                                  !.assertion = assertion, !.challenge = challenge,
                                  !.counter = assertion.authenticatorData.counter,
                                  !.sigOk = SignatureVerifies(keyDoc.publicKey,
                                                              assertion, challenge) ] ]
          /\ resp' = NoResp
     ELSE /\ sk' = [ sk EXCEPT ![r] = IdleSlot ]
          /\ resp' = [ SkResp(sk[r], "validate", 403, "Attestation validation failed")
                         EXCEPT !.log = AppAttestLog(env, keyDoc, assertion, challenge),
                                !.sigOk = SignatureVerifies(keyDoc.publicKey,
                                                            assertion, challenge),
                                !.counter = assertion.authenticatorData.counter ]

\* index.js:190-292 and 1037-1043: validateAppAttest from the read of keyDoc
\* to the replay check; when it returns false the handler answers 403.
SK_Validate(r, assertion, challenge) ==
  LET safeKeyId == getSafeFirestoreId(sk[r].deviceId)
      keyDoc == devices[safeKeyId]
  IN
  /\ Open
  /\ sk[r].pc = "validate"
  /\ UNCHANGED << devices, now, env, inflight, box, wvars, rv, revokeAcked, acceptLog >>
  /\ IF AppAttestPasses(env, keyDoc, assertion, challenge)
     THEN /\ sk' = [ sk EXCEPT ![r] =
                       [ @ EXCEPT !.pc = "update",
                                  !.assertion = assertion, !.challenge = challenge,
                                  !.counter = assertion.authenticatorData.counter,
                                  !.sigOk = SignatureVerifies(keyDoc.publicKey,
                                                              assertion, challenge) ] ]
          /\ resp' = NoResp
     ELSE /\ sk' = [ sk EXCEPT ![r] = IdleSlot ]
          /\ resp' = [ SkResp(sk[r], "validate", 403, "Attestation validation failed")
                         EXCEPT !.log = AppAttestLog(env, keyDoc, assertion, challenge),
                                !.sigOk = SignatureVerifies(keyDoc.publicKey,
                                                            assertion, challenge),
                                !.counter = assertion.authenticatorData.counter ]

\* index.js:293-300 and 1037-1087: the counter update of validateAppAttest,
\* which then returns true, and the handler's code up to its next store
\* operation.
SK_CounterUpdate(r, service) ==
  LET safeKeyId == getSafeFirestoreId(sk[r].deviceId)
      next == AfterValidation(sk[r], service)
  IN
  /\ Open
  /\ sk[r].pc = "update"
  /\ UNCHANGED << env, inflight, box, wvars, rv, revokeAcked >>
  /\ IF ~devices[safeKeyId].exists
     THEN \* update() of a missing document throws: the catch returns false
          /\ UNCHANGED << devices, now, acceptLog >>
          /\ sk' = [ sk EXCEPT ![r] = IdleSlot ]
          /\ resp' = [ SkResp(sk[r], "update", 403, "Attestation validation failed")
                         EXCEPT !.log = "App Attest validation error",
                                !.sigOk = sk[r].sigOk, !.counter = sk[r].counter ]
     ELSE /\ now < MaxClock
          /\ devices' = [ devices EXCEPT ![safeKeyId] =
                            [ @ EXCEPT !.counter = sk[r].counter, !.lastUsed = now ] ]
          /\ now' = now + 1
          /\ acceptLog' = [ acceptLog EXCEPT ![safeKeyId] =
                              @ (+) SetToBag({ << sk[r].assertion, sk[r].challenge >> }) ]
          /\ IF next = "unconfigured"
             THEN /\ sk' = [ sk EXCEPT ![r] = IdleSlot ]
                  /\ resp' = SkResp(sk[r], "update", 500, "Service API key not configured")
             ELSE /\ sk' = [ sk EXCEPT ![r] = [ @ EXCEPT !.pc = next, !.service = service ] ]
                  /\ resp' = NoResp

\* index.js:1065-1086: the cached secret.  The response carries the secret
\* of the snapshot deviceDoc.
SK_Cached(r) ==
  LET safeDeviceId == getSafeFirestoreId(sk[r].deviceId) IN
  /\ Open
  /\ sk[r].pc = "cache"
  /\ now < MaxClock
  /\ devices' = [ devices EXCEPT ![safeDeviceId] =
                    [ @ EXCEPT !.lastSeen = now, !.requestCount = @ + 1 ] ]
  /\ now' = now + 1
  /\ sk' = [ sk EXCEPT ![r] = IdleSlot ]
  /\ resp' = SecretResp(sk[r], "cache", sk[r].deviceDoc.sealed, TRUE)
  /\ UNCHANGED << env, inflight, box, wvars, rv, revokeAcked, acceptLog >>

\* index.js:1089-1121: a new sealed secret, stored with set and merge.
SK_Issue(r, iv) ==
  LET safeDeviceId == getSafeFirestoreId(sk[r].deviceId)
      encrypted == encryptAPIKeyPerDevice(ApiKey, sk[r].deviceId, sk[r].service, iv, now)
  IN
  /\ Open
  /\ sk[r].pc = "issue"
  /\ now < MaxClock
  /\ devices' = [ devices EXCEPT ![safeDeviceId] =
                    [ @ EXCEPT !.exists = TRUE,
                               !.deviceId = sk[r].deviceId,
                               !.service = sk[r].service,
                               !.platform = sk[r].platform,
                               !.sealed = encrypted,
                               !.issuedAt = now,
                               !.lastSeen = now,
                               !.revoked = FALSE,
                               !.requestCount = 1 ] ]
  /\ now' = now + 1
  /\ sk' = [ sk EXCEPT ![r] = IdleSlot ]
  /\ resp' = SecretResp(sk[r], "issue", encrypted, FALSE)
  /\ UNCHANGED << env, inflight, box, wvars, rv, revokeAcked, acceptLog >>

\* ------------------------------------------------ POST /admin/revoke-device
\* index.js:1320-1362: authentication, authorization and the read of the
\* device document.
Rev_Start(idToken, deviceId, reason) ==
  LET safeDeviceId == getSafeFirestoreId(deviceId)
      userEmail == TokenEmail(idToken)
      Fail(status, error) ==
        /\ resp' = [ EarlyResp("revoke-device", status, error) EXCEPT !.idToken = idToken ]
        /\ rv' = rv
  IN
  /\ Open
  /\ rv.pc = "idle"
  /\ UNCHANGED << devices, now, env, inflight, box, wvars, sk, revokeAcked, acceptLog >>
  /\ IF idToken = "" THEN Fail(401, "Missing authentication token")
     ELSE IF ~TokenVerifies(idToken) THEN Fail(403, "Invalid authentication token")
     ELSE IF userEmail # "nmcarducci@gmail.com"
     THEN Fail(403, "Unauthorized - admin access required")
     ELSE IF deviceId = << >> THEN Fail(400, "Missing deviceId")
     ELSE IF ~devices[safeDeviceId].exists THEN Fail(404, "Device not found")
     ELSE /\ rv' = [ pc |-> "update", deviceId |-> deviceId, reason |-> reason,
                     userEmail |-> userEmail, idToken |-> idToken ]
          /\ resp' = NoResp

\* index.js:1364-1386: the update that marks the device revoked, and the
\* success response.
Rev_Update ==
  LET safeDeviceId == getSafeFirestoreId(rv.deviceId) IN
  /\ Open
  /\ rv.pc = "update"
  /\ now < MaxClock
  /\ devices' = [ devices EXCEPT ![safeDeviceId] =
                    [ @ EXCEPT !.revoked = TRUE,
                               !.revokedAt = now,
                               !.revokedReason =
                                  IF rv.reason = "" THEN "Admin revocation" ELSE rv.reason,
                               !.revokedBy = rv.userEmail ] ]
  /\ now' = now + 1
  /\ rv' = IdleRevoke
  /\ resp' = [ Resp("revoke-device", "update", rv.deviceId, "", 200, "")
                 EXCEPT !.idToken = rv.idToken ]
  /\ revokeAcked' = revokeAcked \cup { safeDeviceId }
  /\ UNCHANGED << env, inflight, box, wvars, sk, acceptLog >>

\* ------------------------------------------------------ GET /admin/devices
\* The listing without the check of the email.
ListDevicesAnyUser(idToken, limit, revoked) ==
  LET matching == { k \in SafeIds :
                      /\ devices[k].exists
                      /\ devices[k].issuedAt # -1
                      /\ (revoked = "" \/ devices[k].revoked = (revoked = "true")) }
      page == { k \in matching :
                  Cardinality({ j \in matching :
                                  devices[j].issuedAt > devices[k].issuedAt }) < limit }
      Answer(status, error) ==
        [ EarlyResp("devices", status, error) EXCEPT !.idToken = idToken ]
  IN
  /\ Open
  /\ UNCHANGED << devices, now, env, inflight, box, wvars, sk, rv, revokeAcked, acceptLog >>
  /\ IF idToken = "" THEN resp' = Answer(401, "Missing authentication token")
     ELSE IF ~TokenVerifies(idToken)
     THEN resp' = Answer(403, "Invalid authentication token")
     ELSE resp' = [ Answer(200, "") EXCEPT !.devices = page ]

\* index.js:1404-1460.  The query orders by issuedAt, so it returns only
\* documents that have the field; limit keeps the most recent ones.
ListDevices(idToken, limit, revoked) ==
  LET matching == { k \in SafeIds :
                      /\ devices[k].exists
                      /\ devices[k].issuedAt # -1
                      /\ (revoked = "" \/ devices[k].revoked = (revoked = "true")) }
      page == { k \in matching :
                  Cardinality({ j \in matching :
                                  devices[j].issuedAt > devices[k].issuedAt }) < limit }
      Answer(status, error) ==
        [ EarlyResp("devices", status, error) EXCEPT !.idToken = idToken ]
  IN
  /\ Open
  /\ UNCHANGED << devices, now, env, inflight, box, wvars, sk, rv, revokeAcked, acceptLog >>
  /\ IF idToken = "" THEN resp' = Answer(401, "Missing authentication token")
     ELSE IF ~TokenVerifies(idToken)
     THEN resp' = Answer(403, "Invalid authentication token")
     ELSE IF TokenEmail(idToken) # "nmcarducci@gmail.com"
     THEN resp' = Answer(403, "Unauthorized - admin access required")
     ELSE resp' = [ Answer(200, "") EXCEPT !.devices = page ]

\* --------------------------------------------------------- specification
Reasons == { "" }
Limits == { 1, 100 }
RevokedFilters == { "", "true", "false" }

\* Request bodies.  A field that the handler does not read for the given
\* platform or after a missing field is left at one value.
RegisterBodies ==
  { b \in [ keyId : DeviceIds \cup { << >> }, attestation : Attestations,
            hasFields : BOOLEAN ] :
      (b.keyId = << >> \/ ~b.hasFields) =>
         (b.keyId = << >> /\ ~b.hasFields /\ ~b.attestation.decodes) }

SecureKeyBodies ==
  { b \in [ platform : Platforms \cup { "" }, deviceId : DeviceIds \cup { << >> },
            hasAssertion : BOOLEAN, hasChallenge : BOOLEAN,
            token : AndroidTokens, service : Services ] :
      /\ (b.platform = "" \/ b.deviceId = << >>) =>
            (b.platform = "" /\ b.deviceId = << >> /\ ~b.hasAssertion)
      /\ ~b.hasAssertion => (b.platform \in { "", "ios" } /\ b.service = "congress")
      /\ (b.platform # "ios" \/ ~b.hasAssertion) => b.hasChallenge
      /\ b.platform # "android" => (b.token = "recognized" /\ b.service = "congress") }

Next ==
  \/ \E b \in RegisterBodies : Register(b.keyId, b.attestation, b.hasFields)
  \/ \E r \in Reqs, b \in SecureKeyBodies :
       SK_Start(r, b.platform, b.deviceId, b.hasAssertion, b.hasChallenge,
                b.token, b.service)
  \/ \E r \in Reqs, assertion \in Assertions, challenge \in Challenges :
       SK_Validate(r, assertion, challenge)
  \/ \E r \in Reqs, service \in Services : SK_CounterUpdate(r, service)
  \/ \E r \in Reqs : SK_Cached(r)
  \/ \E r \in Reqs, iv \in IVs : SK_Issue(r, iv)
  \/ \E idToken \in Tokens, deviceId \in DeviceIds \cup { << >> }, reason \in Reasons :
       Rev_Start(idToken, deviceId, reason)
  \/ Rev_Update
  \/ \E idToken \in Tokens, limit \in Limits, revoked \in RevokedFilters :
       ListDevices(idToken, limit, revoked)

Spec == Init /\ [][Next]_vars

\* The same server with two overlapping POST /api/secure-key requests.
InitRace ==
  /\ inflight = 2
  /\ devices = [ k \in SafeIds |-> NoDoc ]
  /\ now = 0
  /\ env \in [ teamId : TeamIds, bundleId : BundleIds ]
  /\ sk = [ r \in Reqs |-> IdleSlot ]
  /\ rv = IdleRevoke
  /\ resp = NoResp
  /\ revokeAcked = {}
  /\ acceptLog = [ k \in SafeIds |-> EmptyBag ]
  /\ SealAtRest
  /\ WebhookAtRest
  /\ whEnv = [ secret |-> VendorSecret, nowSecs |-> 1000 ]
  /\ whInflight = 1

SpecRace == InitRace /\ [][Next]_vars

\* ------------------------------------------------- sealing and unsealing
\* encryptAPIKeyPerDevice for a device and a service, then the device's
\* decipher with a key derived for a device and a service of its choice.
\* The registry takes no part.
RegistryAtRest ==
  /\ inflight = 1
  /\ devices = [ k \in SafeIds |-> NoDoc ]
  /\ now = 0
  /\ env = [ teamId |-> "TEAM123", bundleId |-> "" ]
  /\ sk = [ r \in Reqs |-> IdleSlot ]
  /\ rv = IdleRevoke
  /\ resp = NoResp
  /\ revokeAcked = {}
  /\ acceptLog = [ k \in SafeIds |-> EmptyBag ]

InitSeal ==
  /\ RegistryAtRest
  /\ SealAtRest
  /\ WebhookAtRest
  /\ whEnv = [ secret |-> VendorSecret, nowSecs |-> 1000 ]
  /\ whInflight = 1

\* index.js:1089-1090: the handler seals process.env[envVarName] for the
\* request's deviceId and service.
Seal(apiKey, deviceId, service, iv, t) ==
  /\ box.stage = "empty"
  /\ box' = [ box EXCEPT !.stage = "sealed", !.apiKey = apiKey,
                          !.deviceId = deviceId, !.service = service,
                          !.issuedAt = t,
                          !.sealed = encryptAPIKeyPerDevice(apiKey, deviceId,
                                                            service, iv, t) ]
  /\ UNCHANGED << devices, now, env, inflight, sk, rv, resp, revokeAcked,
                  acceptLog, wvars >>

\* The device unseals what it was handed.
Unseal(deviceId, service) ==
  /\ box.stage = "sealed"
  /\ box' = [ box EXCEPT !.stage = "opened",
                          !.withDeviceId = deviceId, !.withService = service,
                          !.outcome = decryptAPIKeyPerDevice(box.sealed, MasterKey,
                                                            deviceId, service) ]
  /\ UNCHANGED << devices, now, env, inflight, sk, rv, resp, revokeAcked,
                  acceptLog, wvars >>

ApiKeys == { ApiKey, "OTHER_API_KEY" }

NextSeal ==
  \/ \E apiKey \in ApiKeys, deviceId \in SealDeviceIds, service \in Services,
        iv \in IVs, t \in 0..MaxClock :
       Seal(apiKey, deviceId, service, iv, t)
  \/ \E deviceId \in SealDeviceIds, service \in Services : Unseal(deviceId, service)

SpecSeal == InitSeal /\ [][NextSeal]_vars

\* --------------------------------------------------- several identifiers
\* The same server with requests for several device identifiers: one
\* request at a time, each with well-formed fields, the device's key K1
\* attested for this server's application, assertions signed with it over
\* the request's challenge, a recognized token, the configured service and
\* the admin's identity token.
IdAttestations ==
  { a \in Attestations :
      /\ a.decodes /\ a.hasAuthData
      /\ a.authData.key = "K1"
      /\ a.authData.rpIdHash = SHA256(AppIdOf("TEAM123", "com.sayists.Populist")) }

IdAssertions ==
  { a \in ValidAssertions :
      /\ a.authenticatorData.rpIdHash = SHA256(AppIdOf("TEAM123", "com.sayists.Populist"))
      /\ a.authenticatorData.counter = MaxCounter
      /\ \E ch \in Challenges :
           a.signature = ES256Sign("K1", SignedMessage(a.authenticatorData, ch)) }

NextIds ==
  \/ \E keyId \in ProbeIds, attestation \in IdAttestations :
       Register(keyId, attestation, TRUE)
  \/ \E r \in Reqs, deviceId \in ProbeIds, platform \in { "ios", "android" } :
       SK_Start(r, platform, deviceId, TRUE, TRUE, "recognized", "congress")
  \/ \E r \in Reqs, assertion \in IdAssertions, challenge \in Challenges :
       SK_Validate(r, assertion, challenge)
  \/ \E r \in Reqs : SK_CounterUpdate(r, "congress")
  \/ \E r \in Reqs : SK_Cached(r)
  \/ \E r \in Reqs : SK_Issue(r, "iv1")
  \/ \E deviceId \in ProbeIds : Rev_Start("admin", deviceId, "")
  \/ Rev_Update

InitIds ==
  /\ RegistryAtRest
  /\ SealAtRest
  /\ WebhookAtRest
  /\ whEnv = [ secret |-> VendorSecret, nowSecs |-> 1000 ]
  /\ whInflight = 1

SpecIds == InitIds /\ [][NextIds]_vars

\* ----------------------------------------------------------- vendor webhooks
\* As for the registry: a response sent before the first store operation
\* leaves every variable but whResp as it was, and a behaviour is followed
\* up to such a response and not beyond it.
WhOpen == whResp.step # "start"

\* Slot r takes the next request.
HookFree(r) ==
  /\ WhOpen
  /\ r <= whInflight
  /\ wh[r].pc = "idle"
  /\ \A q \in Reqs : q < r => wh[q].pc # "idle"

\* The overlaps the model follows are those of a delivery with the vendor's
\* redelivery of the same body: a request that arrives while another is in
\* flight carries that one's body.
Redelivery(r, route, body) ==
  r > 1 => (wh[1].route = route /\ wh[1].body = body)

\* The response of the request in slot.
HookAnswer(slot, step, status, error, message) ==
  [ HookResp(slot.route, step, status, error, message)
      EXCEPT !.fresh = slot.fresh, !.matches = slot.checked,
             !.signed = slot.checked, !.faulted = slot.faulted ]

\* index.js:845-912: POST /webhook/didit up to the ledger read: the headers,
\* the secret, the signature, the freshness and the fields of the body.
Didit_Start(r, bytes, signature, timestamp) ==
  LET body == JSONparse(bytes)
      rawBody == JSONstringify(body)
      expectedSignature == HmacSha256Hex(whEnv.secret, rawBody)
      compared == timingSafeEqual(signature, expectedSignature)
      timestampInt == parseInt(timestamp)
      fresh == /\ Denotes(timestamp)
               /\ Abs(whEnv.nowSecs - timestampInt.value) <= 300
      Fail(status, error) ==
        /\ whResp' = [ HookResp("didit", "start", status, error, "")
                         EXCEPT !.signed = (signature = HmacSha256Hex(VendorSecret, bytes)),
                                !.matches = (signature = expectedSignature),
                                !.fresh = fresh ]
        /\ wh' = wh
        /\ whNow' = whNow
  IN
  /\ HookFree(r)
  /\ Redelivery(r, "didit", body)
  /\ UNCHANGED << dvars, users, sessions, verificationLogs, securityLogs,
                  processed, whEnv, whInflight >>
  /\ IF signature = NoHeader \/ timestamp = << >>
     THEN Fail(401, "Missing authentication headers")
     ELSE IF whEnv.secret = ""
     THEN Fail(500, "Server configuration error")
     ELSE IF compared = "throws"
     THEN Fail(500, "Internal server error")
     ELSE IF compared = "differs"
     THEN Fail(401, "Invalid signature")
     ELSE IF TooOld(whEnv.nowSecs, timestampInt)
     THEN Fail(401, "Request too old")
     ELSE IF body.webhook_type = "" \/ body.session_id = "" \/ body.status = ""
     THEN Fail(400, "Invalid webhook payload")
     ELSE /\ whNow < MaxWhClock
          /\ whNow' = whNow + 1
          /\ wh' = [ wh EXCEPT ![r] =
                       [ pc |-> "ledger", route |-> "didit", body |-> body,
                         eventId |-> DiditEventId(body, DateNow(whNow)),
                         checked |-> TRUE, fresh |-> fresh, faulted |-> FALSE ] ]
          /\ whResp' = NoHookResp

\* index.js:755-799: POST /webhook up to its first store operation.  No
\* header is read.
Idwise_Start(r, body) ==
  LET slot == [ pc |-> "idle", route |-> "idwise", body |-> body,
                eventId |-> body.eventId, checked |-> FALSE, fresh |-> FALSE,
                faulted |-> FALSE ]
  IN
  /\ HookFree(r)
  /\ Redelivery(r, "idwise", body)
  /\ UNCHANGED << dvars, users, sessions, verificationLogs, securityLogs,
                  processed, whEnv, whInflight >>
  /\ IF body.event = "" \/ body.journeyId = "" \/ body.referenceNo = ""
     THEN /\ whResp' = HookResp("idwise", "start", 400, "Invalid webhook payload", "")
          /\ UNCHANGED << wh, whNow >>
     ELSE IF body.eventId = << >> /\ body.event \notin eventsToProcess
     THEN /\ whResp' = HookResp("idwise", "start", 200, "", "acknowledged but not processed")
          /\ UNCHANGED << wh, whNow >>
     ELSE /\ whNow < MaxWhClock
          /\ whNow' = whNow + 1
          /\ wh' = [ wh EXCEPT ![r] =
                       [ slot EXCEPT !.pc = IF body.eventId # << >> THEN "ledger"
                                                                    ELSE "user" ] ]
          /\ whResp' = NoHookResp

\* index.js:433-443 with 775-799 and 916-935: isEventProcessed (a failed
\* read counts as not processed) and the code up to the next store
\* operation.  ok is FALSE when the store fails.
Hook_Ledger(r, ok) ==
  LET slot == AfterStore(wh[r], ok)
      alreadyProcessed == ok /\ slot.eventId \in DOMAIN processed
      Answer(status, error, message) ==
        /\ whResp' = HookAnswer(slot, "ledger", status, error, message)
        /\ wh' = [ wh EXCEPT ![r] = IdleHook ]
      Goto(pc) ==
        /\ wh' = [ wh EXCEPT ![r] = [ slot EXCEPT !.pc = pc ] ]
        /\ whResp' = NoHookResp
  IN
  /\ WhOpen
  /\ slot.pc = "ledger"
  /\ UNCHANGED << dvars, users, sessions, verificationLogs, securityLogs,
                  processed, whNow, whEnv, whInflight >>
  /\ IF alreadyProcessed
     THEN Answer(200, "", "Event already processed")
     ELSE IF slot.route = "idwise"
     THEN IF slot.body.event \notin eventsToProcess
          THEN Answer(200, "", "acknowledged but not processed")
          ELSE Goto("user")
     ELSE IF slot.body.webhook_type \in { "status.updated", "data.updated" }
     THEN IF slot.body.userId = ""   \* "userId not found in vendor_data"
          THEN Answer(500, "Internal server error", "")
          ELSE Goto("user")
     ELSE Goto("mark")

\* The user a request names: vendor_data.userId, body.referenceNo.
HookUserId(slot) ==
  IF slot.route = "didit" THEN slot.body.userId ELSE slot.body.referenceNo

\* String.prototype.toLowerCase over the letters the names are written in.
toLowerCase(str) ==
  [ i \in DOMAIN str |->
      CASE str[i] = "A" -> "a" [] str[i] = "B" -> "b" [] str[i] = "C" -> "c"
        [] str[i] = "D" -> "d" [] str[i] = "O" -> "o" [] OTHER -> str[i] ]

\* String.prototype.trim: the string without its leading and trailing
\* whitespace.
RECURSIVE trim(_)
trim(str) ==
  IF str = << >> THEN str
  ELSE IF Head(str) = " " THEN trim(Tail(str))
  ELSE IF str[Len(str)] = " " THEN trim(SubSeq(str, 1, Len(str) - 1))
  ELSE str

\* String.prototype.includes: sub occurs in str at some position; the empty
\* string occurs in every string.
includes(str, sub) ==
  \E i \in 0..(Len(str) - Len(sub)) : SubSeq(str, i + 1, i + Len(sub)) = sub

\* index.js:586-603: the name check runs when the decision has both
\* id_verification and a proof-of-address name, and finds a mismatch when
\* neither the last name nor the full name matches.
NameMismatch(decision) ==
  LET normalizedPoAName == trim(toLowerCase(decision.name))
      normalizedIdName == trim(toLowerCase(decision.full_name))
      normalizedLastName == trim(toLowerCase(decision.last_name))
      lastNameMatches == includes(normalizedPoAName, normalizedLastName)
      fullNameMatches == \/ includes(normalizedPoAName, normalizedIdName)
                         \/ includes(normalizedIdName, normalizedPoAName)
  IN /\ decision.proof_of_address
     /\ decision.id_verification /\ decision.name # << >>
     /\ ~lastNameMatches /\ ~fullNameMatches

\* index.js:644-649: proof of address without id_verification.
PoAOnly(decision) ==
  decision.proof_of_address /\ ~decision.id_verification

\* index.js:574-605 and 669-676: the status the Didit update stores in the
\* user document.
DiditUserStatus(body) ==
  IF body.status = "Approved" /\ NameMismatch(Decision(body.decision)) THEN "rejected"
  ELSE IF body.status = "Approved" /\ PoAOnly(Decision(body.decision)) THEN "pending"
  ELSE DiditStatus(body.status)

\* index.js:606-608 and 672: the verificationError the Didit update stores,
\* "" when it names none.
DiditUserError(body) ==
  IF body.status = "Approved" /\ NameMismatch(Decision(body.decision))
  THEN "Name on Proof of Address does not match Government ID"
  ELSE IF body.status = "Approved" /\ PoAOnly(Decision(body.decision))
  THEN "Government ID verification required before Proof of Address"
  ELSE ""

\* index.js:505-508, 618-620 and 707-709: userRef.update(updateData), which
\* throws when the document does not exist or the store fails; the handler's
\* catch answers 500.
Hook_User(r, ok) ==
  LET slot == AfterStore(wh[r], ok)
      body == slot.body
      userId == HookUserId(slot)
  IN
  /\ WhOpen
  /\ slot.pc = "user"
  /\ UNCHANGED << dvars, sessions, verificationLogs, securityLogs, processed,
                  whEnv, whInflight >>
  /\ IF ~ok \/ userId \notin UserIds \/ ~users[userId].exists
     THEN /\ whResp' = HookAnswer(slot, "user", 500, "Internal server error", "")
          /\ wh' = [ wh EXCEPT ![r] = IdleHook ]
          /\ UNCHANGED << users, whNow >>
     ELSE /\ whNow < MaxWhClock
          /\ whNow' = whNow + 1
          /\ whResp' = NoHookResp
          /\ IF slot.route = "idwise"
             THEN /\ users' = [ users EXCEPT ![userId] =
                       [ @ EXCEPT !.journeyStatus = mapDecisionToStatus(body.finalDecision),
                                  !.idwiseFinalDecision = body.finalDecision,
                                  !.lastUpdatedAt = whNow,
                                  !.verifiedAt =
                                     IF mapDecisionToStatus(body.finalDecision) = "verified"
                                     THEN whNow ELSE @ ] ]
                  /\ wh' = [ wh EXCEPT ![r] = [ slot EXCEPT !.pc = "log" ] ]
             ELSE /\ users' = [ users EXCEPT ![userId] =
                       [ @ EXCEPT !.digitSessionId = body.session_id,
                                  !.digitVerificationStatus = DiditUserStatus(body),
                                  !.verificationError =
                                     IF DiditUserError(body) # "" THEN DiditUserError(body) ELSE @,
                                  !.lastUpdatedAt = whNow,
                                  !.verifiedAt =
                                     IF body.status = "Approved" THEN whNow ELSE @ ] ]
                  /\ wh' = [ wh EXCEPT ![r] =
                              [ slot EXCEPT !.pc =
                                  IF body.status = "Approved"
                                     /\ NameMismatch(Decision(body.decision))
                                  THEN "seclog" ELSE "session" ] ]

\* index.js:622-638: the security log of a name mismatch; the update
\* returns from there, without the session update and the verification log.
Hook_SecurityLog(r, ok) ==
  LET slot == AfterStore(wh[r], ok) IN
  /\ WhOpen
  /\ slot.pc = "seclog"
  /\ UNCHANGED << dvars, users, sessions, verificationLogs, processed,
                  whEnv, whInflight >>
  /\ IF ~ok
     THEN /\ whResp' = HookAnswer(slot, "seclog", 500, "Internal server error", "")
          /\ wh' = [ wh EXCEPT ![r] = IdleHook ]
          /\ UNCHANGED << securityLogs, whNow >>
     ELSE /\ whNow < MaxWhClock
          /\ whNow' = whNow + 1
          /\ securityLogs' = securityLogs (+)
               SetToBag({ [ type |-> "verification_name_mismatch",
                            userId |-> slot.body.userId,
                            sessionId |-> slot.body.session_id ] })
          /\ wh' = [ wh EXCEPT ![r] = [ slot EXCEPT !.pc = "mark" ] ]
          /\ whResp' = NoHookResp

\* index.js:713-718: the update of verification_sessions/{sessionId}, which
\* throws when the document does not exist.
Hook_Session(r, ok) ==
  LET slot == AfterStore(wh[r], ok)
      sessionId == slot.body.session_id
  IN
  /\ WhOpen
  /\ slot.pc = "session"
  /\ UNCHANGED << dvars, users, verificationLogs, securityLogs, processed,
                  whEnv, whInflight >>
  /\ IF ~ok \/ sessionId \notin SessionIds \/ ~sessions[sessionId].exists
     THEN /\ whResp' = HookAnswer(slot, "session", 500, "Internal server error", "")
          /\ wh' = [ wh EXCEPT ![r] = IdleHook ]
          /\ UNCHANGED << sessions, whNow >>
     ELSE /\ whNow < MaxWhClock
          /\ whNow' = whNow + 1
          /\ sessions' = [ sessions EXCEPT ![sessionId] =
                             [ @ EXCEPT !.status = DiditStatus(slot.body.status),
                                        !.updatedAt = whNow ] ]
          /\ wh' = [ wh EXCEPT ![r] = [ slot EXCEPT !.pc = "log" ] ]
          /\ whResp' = NoHookResp

\* The log write with its failure swallowed: the handler goes on to the
\* ledger write.
Hook_LogSwallowing(r, ok) ==
  LET slot == AfterStore(wh[r], ok)
      status == IF slot.route = "didit" THEN DiditStatus(slot.body.status)
                ELSE mapDecisionToStatus(slot.body.finalDecision)
  IN
  /\ WhOpen
  /\ slot.pc = "log"
  /\ UNCHANGED << dvars, users, sessions, securityLogs, processed, whEnv, whInflight >>
  /\ wh' = [ wh EXCEPT ![r] = [ slot EXCEPT !.pc = "mark" ] ]
  /\ whResp' = NoHookResp
  /\ IF ok
     THEN /\ whNow < MaxWhClock
          /\ whNow' = whNow + 1
          /\ verificationLogs' = verificationLogs (+)
               SetToBag({ [ userId |-> HookUserId(slot), provider |-> slot.route,
                            status |-> status, delivery |-> slot.body,
                            checked |-> slot.checked ] })
     ELSE UNCHANGED << verificationLogs, whNow >>

\* index.js:512-522 and 720-729: the entry added to verification_logs (its
\* timestamp left out; delivery is history: the body that caused the entry).
\* An IDWise request without eventId is answered from here.
Hook_Log(r, ok) ==
  LET slot == AfterStore(wh[r], ok)
      status == IF slot.route = "didit" THEN DiditStatus(slot.body.status)
                ELSE mapDecisionToStatus(slot.body.finalDecision)
  IN
  /\ WhOpen
  /\ slot.pc = "log"
  /\ UNCHANGED << dvars, users, sessions, securityLogs, processed, whEnv, whInflight >>
  /\ IF ~ok
     THEN /\ whResp' = HookAnswer(slot, "log", 500, "Internal server error", "")
          /\ wh' = [ wh EXCEPT ![r] = IdleHook ]
          /\ UNCHANGED << verificationLogs, whNow >>
     ELSE /\ whNow < MaxWhClock
          /\ whNow' = whNow + 1
          /\ verificationLogs' = verificationLogs (+)
               SetToBag({ [ userId |-> HookUserId(slot), provider |-> slot.route,
                            status |-> status, delivery |-> slot.body,
                            checked |-> slot.checked ] })
          /\ IF slot.route = "idwise" /\ slot.eventId = << >>
             THEN /\ whResp' = HookAnswer(slot, "log", 200, "", "Webhook processed successfully")
                  /\ wh' = [ wh EXCEPT ![r] = IdleHook ]
             ELSE /\ wh' = [ wh EXCEPT ![r] = [ slot EXCEPT !.pc = "mark" ] ]
                  /\ whResp' = NoHookResp

\* index.js:450-461 with 808-818 and 931-941: markEventProcessed, a set
\* without merge whose failure is logged and swallowed, then the answer.
\* The Didit handler passes { event, body: { session_id, status } }, so the
\* fields journeyId and referenceNo of the record are undefined; set()
\* throws on an undefined field value (ignoreUndefinedProperties is not
\* set), and the record of a Didit event is never written.
Hook_Mark(r, ok) ==
  LET written == ok /\ wh[r].route = "idwise"
      slot == AfterStore(wh[r], written)
  IN
  /\ WhOpen
  /\ slot.pc = "mark"
  /\ UNCHANGED << dvars, users, sessions, verificationLogs, securityLogs,
                  whEnv, whInflight >>
  /\ IF ~written
     THEN UNCHANGED << processed, whNow >>
     ELSE /\ whNow < MaxWhClock
          /\ whNow' = whNow + 1
          /\ processed' =
               (slot.eventId :>
                  [ processedAt |-> whNow,
                    eventType |-> IF slot.route = "didit" THEN slot.body.webhook_type
                                  ELSE slot.body.event ])
               @@ processed
  /\ whResp' = HookAnswer(slot, "mark", 200, "", "Webhook processed successfully")
  /\ wh' = [ wh EXCEPT ![r] = IdleHook ]

\* The Didit requests the model delivers: the vendor's delivery of each
\* body (compact bytes, the vendor's signature, the server's time) and the
\* deliveries of DiditBase that differ from it in the form of the bytes, in
\* X-Signature or in X-Timestamp.
DiditRequests ==
  LET Request(bytes, signature, timestamp) ==
        [ bytes |-> bytes, signature |-> signature, timestamp |-> timestamp ]
      baseBytes == JSONstringify(DiditBase)
      serverTime == << "1", "0", "0", "0" >>
  IN { Request(JSONstringify(body), HmacSha256Hex(VendorSecret, JSONstringify(body)),
               serverTime) : body \in DiditBodies }
     \cup { Request(bytes, HmacSha256Hex(VendorSecret, bytes), serverTime) :
              bytes \in { b \in ReceivedBytes : b.body = DiditBase } }
     \cup { Request(baseBytes, signature, serverTime) :
              signature \in SignatureHeaders(baseBytes) }
     \cup { Request(baseBytes, HmacSha256Hex(VendorSecret, baseBytes), timestamp) :
              timestamp \in TimestampHeaders }

NextWebhook ==
  \/ \E r \in Reqs, q \in DiditRequests :
       Didit_Start(r, q.bytes, q.signature, q.timestamp)
  \/ \E r \in Reqs, body \in IdwiseBodies : Idwise_Start(r, body)
  \/ \E r \in Reqs, ok \in BOOLEAN : Hook_Ledger(r, ok)
  \/ \E r \in Reqs, ok \in BOOLEAN : Hook_User(r, ok)
  \/ \E r \in Reqs, ok \in BOOLEAN : Hook_SecurityLog(r, ok)
  \/ \E r \in Reqs, ok \in BOOLEAN : Hook_Session(r, ok)
  \/ \E r \in Reqs, ok \in BOOLEAN : Hook_Log(r, ok)
  \/ \E r \in Reqs, ok \in BOOLEAN : Hook_Mark(r, ok)

InitWebhook ==
  /\ RegistryAtRest
  /\ SealAtRest
  /\ WebhookAtRest
  /\ whEnv \in [ secret : WebhookSecrets, nowSecs : ServerSeconds ]
  /\ whInflight = 1

\* One webhook request at a time.
SpecWebhook == InitWebhook /\ [][NextWebhook]_vars

\* The same server with a delivery and, overlapping it, its redelivery.
InitWebhookRace ==
  /\ RegistryAtRest
  /\ SealAtRest
  /\ WebhookAtRest
  /\ whEnv \in [ secret : WebhookSecrets, nowSecs : ServerSeconds ]
  /\ whInflight = 2

SpecWebhookRace == InitWebhookRace /\ [][NextWebhook]_vars

\* ================================================================ claims
\* The storage key of the device a response is about.
RespKey == getSafeFirestoreId(resp.deviceId)

\* A step in which the secure-key request of slot r sends its response.
Answers(r) == sk[r].pc # "idle" /\ sk'[r].pc = "idle"

\* C1: POST /api/secure-key with platform "ios" answers with a sealed secret
\* only if, in the same request, the presented signature verified under the
\* key of the stored publicKey over authenticatorData || SHA256(challenge);
\* a request whose key reconstruction or signature check fails is answered
\* without a secret.
C1_SecretOnlyAfterSignature ==
  [][ (resp'.route = "secure-key" /\ resp'.hasSecret /\ resp'.platform = "ios")
        => \E r \in Reqs : /\ Answers(r)
                           /\ sk[r].platform = "ios"
                           /\ sk[r].deviceId = resp'.deviceId
                           /\ sk[r].sigOk ]_vars

C1_Witness ==
  resp.route = "secure-key" /\ resp.hasSecret /\ resp.platform = "ios"

\* C2: the stored replay counter of a device record never decreases, over
\* any interleaving of register, secure-key and revoke-device.
C2_CounterNeverDecreases ==
  [][ \A k \in SafeIds : devices'[k].counter >= devices[k].counter ]_vars

\* The step in which request r leaves validateAppAttest after the replay check.
Validated(r) == sk[r].pc = "validate" /\ sk'[r].pc # "validate"

\* The step in which request r writes the presented counter to the record.
Accepts(r) ==
  /\ sk[r].pc = "update"
  /\ sk'[r].pc # "update"
  /\ devices[getSafeFirestoreId(sk[r].deviceId)].exists

\* C3: an assertion whose signature verifies and whose counter exceeds the
\* stored one is accepted exactly once: the acceptance leaves the stored
\* counter equal to the presented counter, and no assertion (with its
\* challenge) is accepted a second time for the same registration, also
\* when two requests carrying it overlap.
C3_AcceptedExactlyOnce ==
  [][ /\ \A r \in Reqs :
           Accepts(r) =>
             devices'[getSafeFirestoreId(sk[r].deviceId)].counter = sk[r].counter
      /\ \A k \in SafeIds : \A e \in BagToSet(acceptLog'[k]) :
           CopiesIn(e, acceptLog'[k]) <= 1 ]_vars

\* C4: an assertion whose signature verifies and whose counter is at most
\* the stored counter makes the request fail with 403 and no sealed secret,
\* validateAppAttest reporting a replay, and the record stays as it was.
C4_ReplayRejected ==
  [][ \A r \in Reqs :
        Validated(r) =>
          LET pass == sk'[r].pc = "update"
              sigOk == IF pass THEN sk'[r].sigOk ELSE resp'.sigOk
              counter == IF pass THEN sk'[r].counter ELSE resp'.counter
              stored == devices[getSafeFirestoreId(sk[r].deviceId)].counter
          IN  (sigOk /\ counter <= stored) =>
                /\ ~pass
                /\ resp'.status = 403
                /\ ~resp'.hasSecret
                /\ resp'.log \in { "App Attest replay attack detected",
                                  "App Attest App ID mismatch (RPID Hash)" }
                /\ devices' = devices ]_vars

C4_Witness ==
  /\ resp.route = "secure-key" /\ resp.step = "validate"
  /\ resp.sigOk
  /\ resp.counter <= devices[RespKey].counter
  /\ resp.log = "App Attest replay attack detected"

\* The record under key k is marked revoked.
RevokedRecord(k) == k \in SafeIds /\ devices[k].exists /\ devices[k].revoked

\* C5: a secure-key request that carries the required fields and whose
\* device record is revoked when the handler reads it is answered 403
\* "Device revoked" with no sealed secret, before any attestation is looked
\* at, and the request writes nothing.
C5_RevokedDenied ==
  [][ /\ \A r \in Reqs :
           (sk[r].pc = "idle" /\ sk'[r].pc # "idle") =>
             ~RevokedRecord(getSafeFirestoreId(sk'[r].deviceId))
      /\ ( /\ resp'.route = "secure-key" /\ resp'.step = "start"
           /\ resp'.error # "Missing required fields"
           /\ RevokedRecord(getSafeFirestoreId(resp'.deviceId)) )
         => /\ resp'.status = 403
            /\ resp'.error = "Device revoked"
            /\ ~resp'.hasSecret
            /\ devices' = devices ]_vars

C5_Witness ==
  /\ resp.route = "secure-key" /\ resp.error = "Device revoked"
  /\ devices[RespKey].revoked

\* C6: once the revoked flag of a device record is true, it stays true.
C6_RevokedStaysRevoked ==
  [][ \A k \in SafeIds : devices[k].revoked => devices'[k].revoked ]_vars

\* C7: after POST /admin/revoke-device has answered success for a device, no
\* POST /api/secure-key response for that device carries a sealed secret.
C7_NoSecretAfterRevokeAck ==
  (resp.route = "secure-key" /\ resp.hasSecret) => RespKey \notin revokeAcked

\* C8: when validateAppAttest returns false the device record is what it was
\* before the call; counter and lastUsed are written by a secure-key request
\* only in the step that follows a passed validation.
C8_FailedValidationWritesNothing ==
  [][ /\ \A r \in Reqs :
           (Validated(r) /\ sk'[r].pc = "idle") => devices' = devices
      /\ \A r \in Reqs :
           (sk[r].pc = "update" /\ sk'[r].pc = "idle" /\ resp'.status = 403)
             => devices' = devices
      /\ \A k \in SafeIds :
           ( \/ devices'[k].lastUsed # devices[k].lastUsed
             \/ ( /\ devices'[k].counter # devices[k].counter
                  /\ resp'.route # "register" ) )
           => \E r \in Reqs : Accepts(r) /\ getSafeFirestoreId(sk[r].deviceId) = k ]_vars

C8_Witness ==
  /\ resp.route = "secure-key" /\ resp.step = "validate" /\ resp.status = 403
  /\ devices[RespKey].exists
  /\ devices[RespKey].lastUsed = -1

\* The record holds a registered credential.
HasCredential(doc) == doc.exists /\ doc.publicKey # NoAuthData

\* C9 as stated: a secure-key request for a device that has no credential
\* returns no sealed secret, and only POST /api/attest/register creates a
\* device record.
C9_UnknownDeviceDenied ==
  [][ /\ (resp'.route = "secure-key" /\ resp'.hasSecret)
           => HasCredential(devices[getSafeFirestoreId(resp'.deviceId)])
      /\ \A k \in SafeIds :
           (~devices[k].exists /\ devices'[k].exists) => resp'.route = "register" ]_vars

\* C9: a secure-key request whose platform is not "android" and whose device
\* has no credential returns no sealed secret, and a device record is
\* created only by POST /api/attest/register or by an android secure-key
\* request.
C9_UnknownDeviceDeniedUnlessAndroid ==
  [][ /\ (resp'.route = "secure-key" /\ resp'.hasSecret /\ resp'.platform # "android")
           => HasCredential(devices[getSafeFirestoreId(resp'.deviceId)])
      /\ \A k \in SafeIds :
           (~devices[k].exists /\ devices'[k].exists)
             => \/ resp'.route = "register"
                \/ resp'.route = "secure-key" /\ resp'.platform = "android" ]_vars

C9_Witness ==
  /\ resp.route = "secure-key" /\ resp.platform # "android"
  /\ resp.deviceId \in DeviceIds
  /\ resp.error \in { "Attestation validation failed", "Invalid platform" }
  /\ ~resp.hasSecret
  /\ ~devices[RespKey].exists

\* The App ID hash this server expects.
ExpectedRpIdHash == SHA256(AppIdOf(env.teamId, BundleIdOf(env)))

\* A register step persists only a credential with the expected hash and
\* counter 0, and a 403 of register leaves the registry alone.
RegisterChecksAppId ==
  /\ \A k \in SafeIds :
       devices'[k].registeredAt # devices[k].registeredAt =>
         /\ devices'[k].publicKey.rpIdHash = ExpectedRpIdHash
         /\ devices'[k].counter = 0
  /\ (resp'.route = "register" /\ resp'.status = 403) =>
       /\ resp'.error = "Invalid App ID or Team ID"
       /\ devices' = devices

\* C10 as stated: register persists a credential, with counter 0, only when
\* the attestation's hash is SHA-256 of "<teamId>.<bundleId>" as configured;
\* otherwise it answers the App ID mismatch and persists nothing.
C10_RegisterOnlyMatchingAppId == [][ RegisterChecksAppId ]_vars

\* C10: the same, for a server on which APPLE_TEAM_ID is set.
C10_RegisterOnlyMatchingAppIdWhenTeamSet ==
  [][ env.teamId # "" => RegisterChecksAppId ]_vars

C10_Witness ==
  /\ env.teamId # ""
  /\ resp.route = "register" /\ resp.status = 403
  /\ resp.error = "Invalid App ID or Team ID"

\* The response answers a request whose attestation or assertion blob could
\* not be decoded or lacked a field.
MalformedBlobAnswer ==
  \/ resp.route = "register" /\ resp.log = "App Attest registration error"
  \/ resp.route = "secure-key" /\ resp.log = "App Attest validation error"

\* C11: a malformed attestation or assertion blob is answered with an
\* authentication denial (401 or 403), never with a 5xx, on register and on
\* secure-key, and the registry stays as it was.
C11_MalformedBlobDenied ==
  [][ MalformedBlobAnswer' =>
        /\ resp'.status \in { 401, 403 }
        /\ devices' = devices ]_vars

\* Statuses and error texts of the responses of the two routes.
Statuses == { 200, 400, 401, 403, 404, 500 }
Errors ==
  { "", "Missing required fields", "Registration failed",
    "Invalid App ID or Team ID", "Attestation validation failed",
    "Device revoked", "Invalid platform", "Missing challenge",
    "Service API key not configured" }

\* In the current state some register request fails verification (the
\* verifier logged an error) and is answered status, error.
RegisterCanFailWith(status, error) ==
  ENABLED ( /\ \E b \in RegisterBodies : Register(b.keyId, b.attestation, b.hasFields)
            /\ resp'.log # ""
            /\ resp'.status = status /\ resp'.error = error )

\* In the current state some secure-key request fails in validateAppAttest
\* and is answered status, error.
AssertionCanFailWith(status, error) ==
  ENABLED ( /\ \E r \in Reqs, assertion \in Assertions, challenge \in Challenges :
                 SK_Validate(r, assertion, challenge)
            /\ resp'.log # ""
            /\ resp'.status = status /\ resp'.error = error )

\* C12: two requests that fail verification for different causes get the
\* same status and the same body, on register and on secure-key.
C12_FailuresIndistinguishable ==
  \A s1, s2 \in Statuses : \A e1, e2 \in Errors :
    /\ (RegisterCanFailWith(s1, e1) /\ RegisterCanFailWith(s2, e2))
         => (s1 = s2 /\ e1 = e2)
    /\ (AssertionCanFailWith(s1, e1) /\ AssertionCanFailWith(s2, e2))
         => (s1 = s2 /\ e1 = e2)

\* The record under key k holds a sealed secret for service and is not revoked.
HoldsSecretFor(k, service) ==
  /\ devices[k].exists
  /\ ~devices[k].revoked
  /\ devices[k].service = service
  /\ devices[k].sealed # NoSealed

\* C13: the secret of a (deviceId, service) pair is sealed once and then
\* reused: no request seals again while the non-revoked record holds a
\* secret for the service, every response with a secret carries the sealed
\* secret the registry holds, and a reuse changes only requestCount and
\* lastSeen.
C13_SealedOnceThenReused ==
  [][ \A r \in Reqs :
        LET k == getSafeFirestoreId(sk[r].deviceId) IN
        /\ (sk[r].pc = "issue" /\ sk'[r].pc = "idle")
             => ~HoldsSecretFor(k, sk[r].service)
        /\ (Answers(r) /\ resp'.hasSecret)
             => resp'.sealed = devices'[k].sealed
        /\ (sk[r].pc = "cache" /\ sk'[r].pc = "idle")
             => devices' = [ devices EXCEPT ![k] =
                   [ @ EXCEPT !.requestCount = devices'[k].requestCount,
                              !.lastSeen = devices'[k].lastSeen ] ] ]_vars

\* C14: unsealing with the key derived from the same master secret for the
\* same (deviceId, service) succeeds and gives back the payload that was
\* sealed; with the key derived for another service or another deviceId the
\* tag check fails.
C14_UnsealRoundTrip ==
  box.stage = "opened" =>
    IF box.withDeviceId = box.deviceId /\ box.withService = box.service
    THEN /\ box.outcome.ok
         /\ box.outcome.payload = [ key |-> box.apiKey, deviceId |-> box.deviceId,
                                    issuedAt |-> box.issuedAt ]
    ELSE ~box.outcome.ok

C14_Witness ==
  /\ box.stage = "opened"
  /\ box.withDeviceId = box.deviceId /\ box.withService = box.service
  /\ box.outcome.ok /\ box.outcome.payload.key = ApiKey

\* The step is a store write of webhook request r.
HookWrites(r) == wh[r].pc \in { "user", "session", "seclog", "log", "mark" } /\ wh'[r] # wh[r]

DiditTurnedBack ==
  /\ whResp.route = "didit" /\ whResp.step = "start"
  /\ whEnv.secret # ""

\* C16: a POST /webhook/didit request whose X-Signature is not the expected
\* digest, whatever the header holds, is answered 401 and reaches neither
\* the ledger nor the business update.
C16_BadSignatureIs401 ==
  /\ (DiditTurnedBack /\ ~whResp.matches) => whResp.status = 401
  /\ \A r \in Reqs : (wh[r].route = "didit" /\ wh[r].pc # "idle") => wh[r].checked

\* C17: a POST /webhook/didit request whose X-Signature is the HMAC-SHA256
\* of the bytes received under the shared secret is not rejected as an
\* invalid signature, whatever the whitespace of the JSON text.
C17_SignedBytesAccepted ==
  (DiditTurnedBack /\ whEnv.secret = VendorSecret /\ whResp.signed)
    => whResp.error # "Invalid signature"

\* C18: a POST /webhook/didit request with a valid signature whose
\* X-Timestamp is not a time within 300 seconds of the server's is turned
\* back with 401, and every request that reaches the ledger check or the
\* business update carried a timestamp within 300 seconds.
C18_StaleRejected ==
  /\ (DiditTurnedBack /\ whResp.matches /\ ~whResp.fresh)
       => (whResp.status = 401 /\ whResp.error \in { "Request too old",
                                                     "Missing authentication headers" })
  /\ \A r \in Reqs : (wh[r].route = "didit" /\ wh[r].pc # "idle") => wh[r].fresh

\* The business update of a delivery of body has been applied in full.
Applied(body) == \E e \in BagToSet(verificationLogs) : e.delivery = body

\* C19: the business update of a Didit webhook is applied once however
\* often the webhook is delivered: no delivery updates the user document
\* when the update of the same body has been applied, and no body has two
\* entries in the verification logs.
C19_DeliveredTwiceAppliedOnce ==
  [][ /\ \A r \in Reqs :
           (wh[r].route = "didit" /\ wh[r].pc = "user" /\ users' # users)
             => ~Applied(wh[r].body)
      /\ \A e \in BagToSet(verificationLogs') :
           e.provider = "didit" => CopiesIn(e, verificationLogs') <= 1 ]_vars

C21_EventIdOfPayloadAlone ==
  \A r \in Reqs :
    (wh[r].route = "didit" /\ wh[r].pc # "idle") =>
      \A t \in 0..MaxWhClock : wh[r].eventId = DiditEventId(wh[r].body, DateNow(t))

\* C22: a POST /webhook/didit request during which a store operation
\* failed (the ledger read, a write of the business update, the ledger
\* write) is answered 5xx, never 200.
C22_StoreFaultIs5xx ==
  (whResp.route = "didit" /\ whResp.faulted) => whResp.status >= 500

\* The business update of the request in slot is in the store: the status in
\* the user document and, but for a name mismatch, the verification log.
UpdateApplied(slot) ==
  IF slot.route = "idwise"
  THEN /\ users[slot.body.referenceNo].journeyStatus
            = mapDecisionToStatus(slot.body.finalDecision)
       /\ Applied(slot.body)
  ELSE slot.body.webhook_type \in { "status.updated", "data.updated" } =>
         /\ users[slot.body.userId].digitVerificationStatus = DiditUserStatus(slot.body)
         /\ (DiditUserStatus(slot.body) = "rejected" /\ slot.body.status = "Approved")
              \/ Applied(slot.body)

AdminToken(idToken) ==
  /\ idToken # ""
  /\ TokenVerifies(idToken)
  /\ TokenEmail(idToken) = "nmcarducci@gmail.com"

\* C24: POST /admin/revoke-device writes a record, and GET /admin/devices
\* lists device data, only for a request whose identity token verifies with
\* the admin's email; every other admin request is answered 401 or 403,
\* writes nothing and lists nothing; a revocation records the email of the
\* token in the record.
C24_AdminOnly ==
  [][ /\ (resp'.route = "revoke-device" /\ devices' # devices) =>
           /\ AdminToken(resp'.idToken)
           /\ \A k \in SafeIds :
                devices'[k] # devices[k] =>
                  /\ devices'[k].revoked
                  /\ devices'[k].revokedBy = TokenEmail(resp'.idToken)
      /\ (resp'.route = "devices" /\ resp'.devices # {}) => AdminToken(resp'.idToken)
      /\ (resp'.route \in { "revoke-device", "devices" } /\ ~AdminToken(resp'.idToken)) =>
           /\ devices' = devices
           /\ resp'.devices = {}
           /\ resp'.status \in { 401, 403 } ]_vars

\* A revocation by the admin was answered 200 and the record names the admin.
C24_Witness ==
  /\ resp.route = "revoke-device" /\ resp.status = 200
  /\ AdminToken(resp.idToken)
  /\ \E k \in SafeIds : devices[k].revoked /\ devices[k].revokedBy = "nmcarducci@gmail.com"

\* The device identifiers a registry record was written for.
Owners(doc) == { doc.keyId, doc.deviceId } \ { << >> }

\* The step belongs to a register, secure-key or revoke-device request for
\* the device identifier id.
RequestFor(id) ==
  \/ \E r \in Reqs : sk'[r] # sk[r] /\ id \in { sk[r].deviceId, sk'[r].deviceId }
  \/ rv' # rv /\ id \in { rv.deviceId, rv'.deviceId }
  \/ resp'.route = "register" /\ id = resp'.deviceId

\* C25: a request for a device identifier modifies no registry record that
\* was written for another identifier, and the sealed secret it is answered
\* with from the registry was sealed for its own identifier.
C25_DevicesIndependent ==
  [][ /\ \A id \in ProbeIds : \A k \in DOMAIN devices :
           (RequestFor(id) /\ devices'[k] # devices[k]) => Owners(devices[k]) \subseteq { id }
      /\ resp'.hasSecret => resp'.sealed.encryptedKey.plain.deviceId = resp'.deviceId ]_vars

\* The storage key the convention gives a device identifier.
Sanitized(id) ==
  [ i \in DOMAIN id |-> CASE id[i] = "/" -> "_"
                          [] id[i] = "+" -> "-"
                          [] OTHER -> id[i] ]

\* The step uses the document k of "devices": it writes it, or logs an
\* accepted assertion or an answered revocation for it.
Uses(k) ==
  \/ devices'[k] # devices[k]
  \/ acceptLog'[k] # acceptLog[k]
  \/ k \in revokeAcked' \ revokeAcked

\* C26: the document a register, secure-key (with validateAppAttest) or
\* revoke-device request uses is the one whose key is the request's device
\* identifier with each "/" replaced by "_" and each "+" by "-"; the key
\* holds neither character and sanitizing it again returns it unchanged.
C26_StorageKeySanitized ==
  [][ \A id \in ProbeIds : \A k \in DOMAIN devices :
        (RequestFor(id) /\ Uses(k)) =>
          /\ k = Sanitized(id)
          /\ \A i \in DOMAIN k : k[i] \notin { "/", "+" }
          /\ getSafeFirestoreId(k) = k ]_vars

\* Records exist under "_a_" for the identifier "/a/" and under "-" for "+".
C26_Witness ==
  /\ devices[<< "_", "a", "_" >>].exists
  /\ Owners(devices[<< "_", "a", "_" >>]) = { << "/", "a", "/" >> }
  /\ devices[<< "-" >>].exists
  /\ Owners(devices[<< "-" >>]) = { << "+" >> }

\* C27: once a record holds a credential for a keyId, no later request
\* changes its publicKey, and a register request for that keyId does not
\* reset its counter.
C27_CredentialKeptOnReRegister ==
  [][ \A k \in SafeIds :
        (devices[k].exists /\ devices[k].keyId # << >>) =>
          /\ devices'[k].publicKey = devices[k].publicKey
          /\ resp'.route = "register" => devices'[k].counter = devices[k].counter ]_vars

\* The step answers a POST /api/secure-key request with a status other
\* than 200.
SecureKeyRefused == resp'.route = "secure-key" /\ resp'.status \notin { 0, 200 }

\* C28: a step that answers POST /api/secure-key with a status other than
\* 200 leaves every registry record, its replay counter included, as it was.
C28_RefusalLeavesRecord ==
  [][ SecureKeyRefused => devices' = devices ]_vars

\* C28, amended: a step that answers POST /api/secure-key with a status
\* other than 200 leaves every registry record as it was, but for the
\* answer 500 "Service API key not configured" to a request whose
\* assertion validateAppAttest accepted: that step has written the counter
\* and lastUsed of the device's record, and nothing else.
C28_RefusalLeavesRecordButForVerified ==
  [][ SecureKeyRefused =>
        \/ devices' = devices
        \/ /\ resp'.status = 500 /\ resp'.error = "Service API key not configured"
           /\ \E r \in Reqs : sk[r].pc = "update" /\ sk'[r].pc = "idle"
           /\ \A k \in SafeIds :
                [ devices'[k] EXCEPT !.counter = devices[k].counter,
                                     !.lastUsed = devices[k].lastUsed ] = devices[k] ]_vars

\* A request with an accepted assertion for a service without a key was
\* answered 500 and the counter of its device's record stands advanced.
C28_Witness ==
  /\ resp.route = "secure-key" /\ resp.step = "update"
  /\ resp.status = 500 /\ resp.error = "Service API key not configured"
  /\ devices[getSafeFirestoreId(resp.deviceId)].counter > 0
  /\ devices[getSafeFirestoreId(resp.deviceId)].lastUsed >= 0

\* The step completes the user update of a Didit status.updated or
\* data.updated delivery held in slot r.
DiditUserUpdated(r) ==
  /\ wh[r].route = "didit" /\ wh[r].pc = "user"
  /\ wh'[r].pc \in { "session", "seclog" }

\* The step answers 200 to a Didit delivery in slot r whose update ran.
DiditUpdateAnswered(r) ==
  /\ wh[r].route = "didit" /\ wh[r].pc = "mark" /\ wh'[r] = IdleHook
  /\ wh[r].body.webhook_type \in { "status.updated", "data.updated" }
  /\ whResp'.route = "didit" /\ whResp'.status = 200

\* C29: when POST /webhook/didit has processed a status.updated or
\* data.updated event and answers 200, the status of
\* verification_sessions/{sessionId} equals the digitVerificationStatus of
\* the user named in vendor_data.
C29_SessionAgreesWithUser ==
  [][ \A r \in Reqs : DiditUpdateAnswered(r) =>
        sessions'[wh[r].body.session_id].status
          = users'[wh[r].body.userId].digitVerificationStatus ]_vars

\* The match the name check is to find: the normalized proof-of-address
\* name contains the non-empty last name of the ID, or one of it and the
\* non-empty full name of the ID contains the other.
NamesAgree(decision) ==
  LET poa == trim(toLowerCase(decision.name))
      full == trim(toLowerCase(decision.full_name))
      last == trim(toLowerCase(decision.last_name))
  IN \/ last # << >> /\ includes(poa, last)
     \/ full # << >> /\ (includes(poa, full) \/ includes(full, poa))

\* C30: an Approved delivery with a proof-of-address name and
\* id_verification leaves the user 'verified' only when the names agree, and
\* sets the user to 'rejected' otherwise; an empty ID name is never a match.
C30_VerifiedOnlyOnNameMatch ==
  [][ \A r \in Reqs :
        LET decision == Decision(wh[r].body.decision)
            stored == users'[wh[r].body.userId].digitVerificationStatus
        IN ( /\ DiditUserUpdated(r)
             /\ wh[r].body.status = "Approved"
             /\ decision.proof_of_address /\ decision.name # << >>
             /\ decision.id_verification ) =>
             /\ stored = "verified" => NamesAgree(decision)
             /\ ~NamesAgree(decision) => stored = "rejected" ]_vars

====
